---- MODULE Spec2Model ----
(***************************************************************************)
(* The blog application of src/main.py as a state machine: the "posts"     *)
(* table of src/models.py, the request handlers that read and write it,    *)
(* and the wall clock the handlers stamp rows with.  Text is a sequence of *)
(* one-character strings, so that slugify and ILIKE are computed.          *)
(***************************************************************************)
EXTENDS Integers, Sequences, FiniteSets, TLC

VARIABLES posts, nextId, now, resp, procs

vars == <<posts, nextId, now, resp, procs>>

(***************************************************************************)
(* Bounds of the model.                                                    *)
(***************************************************************************)
\* ids the posts_id_seq sequence hands out in the sequential specification
MaxId == 2
\* ids it hands out in the listing specification (more than one page)
MaxHomeId == 5
\* ids it hands out in the concurrent specification
MaxConcId == 2
\* last value of the wall clock
MaxTime == 1
\* last page number requested
MaxPage == 2

(***************************************************************************)
(* Program constants.                                                      *)
(***************************************************************************)
POSTS_PER_PAGE == 4
\* a NULL timestamp column (timestamps are >= 0)
NULL == -1
\* Form(None): no slug submitted; "" is falsy in the same tests
NoSlug == <<>>

(***************************************************************************)
(* Characters.                                                             *)
(***************************************************************************)
UpperChars == {"A", "B", "H"}
LowerChars == {"a", "b", "h", "i"}
\* \w of re: letters, digits and the underscore
WordChars == UpperChars \cup LowerChars \cup {"1", "_"}
\* \s of re
SpaceChars == {" "}

\* str.lower(), one character
LowerChar(c) ==
    CASE c = "A" -> "a"
      [] c = "B" -> "b"
      [] c = "H" -> "h"
      [] OTHER -> c

\* str.lower()
Lower(text) == [i \in 1..Len(text) |-> LowerChar(text[i])]

\* re.sub(r"[^\w\s-]", "", text)
KeepSlugChar(c) == c \in WordChars \cup SpaceChars \cup {"-"}
StripNonWord(text) == SelectSeq(text, KeepSlugChar)

\* re.sub(r"\s+", "-", text): each maximal run of whitespace becomes one hyphen
RECURSIVE CollapseSpace(_)
CollapseSpace(text) ==
    IF text = <<>> THEN <<>>
    ELSE IF Head(text) \in SpaceChars
         THEN IF Len(text) > 1 /\ text[2] \in SpaceChars
              THEN CollapseSpace(Tail(text))
              ELSE <<"-">> \o CollapseSpace(Tail(text))
         ELSE <<Head(text)>> \o CollapseSpace(Tail(text))

\* text.strip("-")
RECURSIVE StripHyphens(_)
StripHyphens(text) ==
    IF text = <<>> THEN <<>>
    ELSE IF Head(text) = "-" THEN StripHyphens(Tail(text))
    ELSE IF text[Len(text)] = "-" THEN StripHyphens(SubSeq(text, 1, Len(text) - 1))
    ELSE text

slugify(text) == StripHyphens(CollapseSpace(StripNonWord(Lower(text))))

(***************************************************************************)
(* The posts table.                                                        *)
(***************************************************************************)
\* a row of models.Post; the id is the key of the posts function
PostRow(title, slug, content, author, is_published, created_at, published_at, updated_at) ==
    [title |-> title, slug |-> slug, content |-> content, author |-> author,
     is_published |-> is_published, created_at |-> created_at,
     published_at |-> published_at, updated_at |-> updated_at]

\* the unique index on posts.slug, as a mutant: no index
UniqueOk_NoIndex(ps) == TRUE

\* the unique index on posts.slug: a commit that breaks it raises IntegrityError
UniqueOk(ps) ==
    \A i, j \in DOMAIN ps : ps[i].slug = ps[j].slug => i = j

\* db.query(models.Post).filter(models.Post.slug == final_slug).first(), as a
\* mutant: the handler skips the existence test
SlugExists_Skip(ps, slug) == FALSE

\* db.query(models.Post).filter(models.Post.slug == final_slug).first()
SlugExists(ps, slug) == \E i \in DOMAIN ps : ps[i].slug = slug

\* db.delete(post)
RemoveRow(ps, id) == [i \in DOMAIN ps \ {id} |-> ps[i]]

\* db.add(new_post), the id drawn from the sequence
AddRow(ps, id, row) == [i \in DOMAIN ps \cup {id} |-> IF i = id THEN row ELSE ps[i]]

(***************************************************************************)
(* Responses.                                                              *)
(***************************************************************************)
\* what a handler answers, as far as the properties read it: the handler, the
\* status, and the posts and page count handed to the template
Response(op, status) ==
    [op |-> op, status |-> status, posts |-> <<>>, total_pages |-> 0]

(***************************************************************************)
(* The wall clock: datetime.now() reads it, and it does not move for each  *)
(* read.                                                                   *)
(***************************************************************************)
Tick ==
    /\ now < MaxTime
    /\ now' = now + 1
    /\ UNCHANGED <<posts, nextId, resp, procs>>

(***************************************************************************)
(* GET /                                                                   *)
(***************************************************************************)
\* LIKE: % is any run of characters, _ any one character; ILIKE compares
\* lower-cased
RECURSIVE LikeMatch(_, _)
LikeMatch(pattern, text) ==
    IF pattern = <<>> THEN text = <<>>
    ELSE IF Head(pattern) = "%"
         THEN \/ LikeMatch(Tail(pattern), text)
              \/ text # <<>> /\ LikeMatch(pattern, Tail(text))
    ELSE /\ text # <<>>
         /\ Head(pattern) = "_" \/ Head(pattern) = Head(text)
         /\ LikeMatch(Tail(pattern), Tail(text))

\* column.ilike(f"%{search}%")
ILike(text, search) == LikeMatch(<<"%">> \o Lower(search) \o <<"%">>, Lower(text))

\* the rows of the filtered query
Matching(ps, search) ==
    {i \in DOMAIN ps :
        /\ ps[i].is_published
        /\ \/ search = <<>>
           \/ ILike(ps[i].title, search)
           \/ ILike(ps[i].content, search)
           \/ ILike(ps[i].author, search)}

\* published_at.desc().nullslast(): a may stand before b
Before(ps, a, b) ==
    \/ ps[b].published_at = NULL
    \/ ps[a].published_at # NULL /\ ps[a].published_at >= ps[b].published_at

\* every order the database may return the rows in: rows that share a
\* published_at come in any order, ORDER BY names no other column
RECURSIVE Orderings(_, _)
Orderings(ps, ids) ==
    IF ids = {} THEN {<<>>}
    ELSE UNION {{<<a>> \o rest : rest \in Orderings(ps, ids \ {a})} :
                a \in {x \in ids : \A y \in ids : Before(ps, x, y)}}

\* ceil(total_posts / POSTS_PER_PAGE)
Ceil(a, b) == (a + b - 1) \div b

Max(a, b) == IF a >= b THEN a ELSE b
Min(a, b) == IF a <= b THEN a ELSE b

\* .offset(offset).limit(POSTS_PER_PAGE) of an ordered result
PageOf(order, page) ==
    SubSeq(order, (page - 1) * POSTS_PER_PAGE + 1,
           Min(page * POSTS_PER_PAGE, Len(order)))

\* what home hands to the template, for every order the database may answer in
HomeResults(ps, page, search) ==
    LET ids == Matching(ps, search)
        total_posts == Cardinality(ids)
        total_pages == Max(Ceil(total_posts, POSTS_PER_PAGE), 1)
    IN {[Response("home", 200) EXCEPT !.posts = PageOf(order, page),
                                      !.total_pages = total_pages] :
          order \in Orderings(ps, ids)}

Home(page, search) ==
    /\ IF (page - 1) * POSTS_PER_PAGE < 0
       THEN \* the database rejects a negative OFFSET
            resp' = Response("home", 500)
       ELSE resp' \in HomeResults(posts, page, search)
    /\ UNCHANGED <<posts, nextId, now, procs>>

(***************************************************************************)
(* GET /post/{slug}                                                        *)
(***************************************************************************)
\* the rows the query of view_post selects, as a mutant: drafts too
PublishedBySlug_Any(ps, slug) == {i \in DOMAIN ps : ps[i].slug = slug}

\* the rows the query of view_post selects
PublishedBySlug(ps, slug) ==
    {i \in DOMAIN ps : ps[i].slug = slug /\ ps[i].is_published}

ViewPost(slug) ==
    /\ IF PublishedBySlug(posts, slug) = {}
       THEN resp' = Response("view_post", 404)
       ELSE \E i \in PublishedBySlug(posts, slug) :
              resp' = [Response("view_post", 200) EXCEPT !.posts = <<i>>]
    /\ UNCHANGED <<posts, nextId, now, procs>>

(***************************************************************************)
(* POST /create                                                            *)
(***************************************************************************)
\* final_slug = slugify(slug) if slug else slugify(title)
FinalSlug(slug, title) == IF slug # NoSlug THEN slugify(slug) ELSE slugify(title)

\* models.Post(...) as create_post builds it; created_at is the column default
NewPost(title, content, author, slug, action, t) ==
    PostRow(title, FinalSlug(slug, title), content, author, action = "publish",
            t, t, NULL)

CreatePost(title, content, author, slug, action) ==
    /\ IF SlugExists(posts, FinalSlug(slug, title))
       THEN /\ resp' = Response("create_post", 400)
            /\ UNCHANGED <<posts, nextId>>
       ELSE LET new == AddRow(posts, nextId,
                              NewPost(title, content, author, slug, action, now))
            IN \* the INSERT draws the id, then the unique index is checked
               /\ nextId' = nextId + 1
               /\ IF ~UniqueOk(new)
                  THEN /\ resp' = Response("create_post", 500)
                       /\ UNCHANGED posts
                  ELSE /\ posts' = new
                       /\ resp' = Response("create_post", 303)
    /\ UNCHANGED <<now, procs>>

(***************************************************************************)
(* POST /post/{post_id}/edit                                               *)
(***************************************************************************)
\* the assignments of edit_post, as a mutant: the draft is stamped too
Edited_StampDraft(post, title, content, author, slug, t) ==
    [post EXCEPT !.title = title, !.content = content, !.author = author,
                 !.slug = IF ~post.is_published THEN @
                          ELSE IF slug # NoSlug THEN slug ELSE slugify(title),
                 !.updated_at = t]

\* the assignments of edit_post, as a mutant: the post goes back to draft
Edited_Unpublish(post, title, content, author, slug, t) ==
    [post EXCEPT !.title = title, !.content = content, !.author = author,
                 !.is_published = FALSE]

\* the assignments of edit_post
Edited(post, title, content, author, slug, t) ==
    IF post.is_published
    THEN [post EXCEPT !.title = title, !.content = content, !.author = author,
                      !.slug = IF slug # NoSlug THEN slug ELSE slugify(title),
                      !.updated_at = t]
    ELSE [post EXCEPT !.title = title, !.content = content, !.author = author]

EditPost(post_id, title, content, author, slug) ==
    /\ IF post_id \notin DOMAIN posts
       THEN /\ resp' = Response("edit_post", 404)
            /\ UNCHANGED posts
       ELSE LET new == [posts EXCEPT
                          ![post_id] = Edited(@, title, content, author, slug, now)]
            IN IF ~UniqueOk(new)
               THEN \* db.commit() raises IntegrityError, the session is closed
                    \* without a commit
                    /\ resp' = Response("edit_post", 500)
                    /\ UNCHANGED posts
               ELSE /\ posts' = new
                    /\ resp' = Response("edit_post", 303)
    /\ UNCHANGED <<nextId, now, procs>>

(***************************************************************************)
(* POST /post/{post_id}/delete                                             *)
(***************************************************************************)
DeletePost(post_id) ==
    /\ IF post_id \notin DOMAIN posts
       THEN /\ resp' = Response("delete_post", 404)
            /\ UNCHANGED posts
       ELSE /\ posts' = RemoveRow(posts, post_id)
            /\ resp' = Response("delete_post", 303)
    /\ UNCHANGED <<nextId, now, procs>>

(***************************************************************************)
(* POST /post/{post_id}/publish                                            *)
(***************************************************************************)
\* the assignments of publish_draft, as a mutant: the test of is_published
\* is missing
Published_Always(post, t) ==
    [post EXCEPT !.is_published = TRUE, !.published_at = t, !.updated_at = t]

\* the assignments of publish_draft
Published(post, t) ==
    IF ~post.is_published
    THEN [post EXCEPT !.is_published = TRUE, !.published_at = t, !.updated_at = t]
    ELSE post

PublishDraft(post_id) ==
    /\ IF post_id \notin DOMAIN posts
       THEN /\ resp' = Response("publish_draft", 404)
            /\ UNCHANGED posts
       ELSE /\ posts' = [posts EXCEPT ![post_id] = Published(@, now)]
            /\ resp' = Response("publish_draft", 303)
    /\ UNCHANGED <<nextId, now, procs>>

(***************************************************************************)
(* POST /create, one request per worker, the query and the commit as       *)
(* separate steps.                                                         *)
(***************************************************************************)
Procs == {1, 2}

Idle == [pc |-> "idle", title |-> <<>>, content |-> <<>>, author |-> <<>>,
         final_slug |-> <<>>, action |-> "draft", status |-> 0]

\* lines 113-116: the form is read and final_slug computed
CreateBegin(p, title, content, author, slug, action) ==
    /\ procs[p].pc = "idle"
    /\ procs' = [procs EXCEPT ![p] =
                   [pc |-> "query", title |-> title, content |-> content,
                    author |-> author, final_slug |-> FinalSlug(slug, title),
                    action |-> action, status |-> 0]]
    /\ UNCHANGED <<posts, nextId, now, resp>>

\* lines 118-122: the existence query and the 400
CreateQuery(p) ==
    /\ procs[p].pc = "query"
    /\ procs' = IF SlugExists(posts, procs[p].final_slug)
                THEN [procs EXCEPT ![p].pc = "idle", ![p].status = 400]
                ELSE [procs EXCEPT ![p].pc = "commit"]
    /\ UNCHANGED <<posts, nextId, now, resp>>

\* lines 124-143: the row is built, added and committed
CreateCommit(p) ==
    /\ procs[p].pc = "commit"
    /\ LET row == PostRow(procs[p].title, procs[p].final_slug, procs[p].content,
                          procs[p].author, procs[p].action = "publish",
                          now, now, NULL)
           new == AddRow(posts, nextId, row)
       IN /\ nextId' = nextId + 1
          /\ IF ~UniqueOk(new)
             THEN \* IntegrityError: the transaction is rolled back
                  /\ procs' = [procs EXCEPT ![p].pc = "idle", ![p].status = 500]
                  /\ UNCHANGED posts
             ELSE /\ posts' = new
                  /\ procs' = [procs EXCEPT ![p].pc = "idle", ![p].status = 303]
    /\ UNCHANGED <<now, resp>>

(***************************************************************************)
(* The sequential specification: requests served one after the other, the  *)
(* clock moving between them.                                              *)
(***************************************************************************)
Titles == {<<"H", "i", " ", "A", "!">>, <<"B">>}
Contents == {<<"a">>}
Authors == {<<"i">>}
EditTitles == {<<"B", "!">>}
EditContents == {<<"b">>}
EditAuthors == {<<"h">>}
EditSlugs == {NoSlug, <<"A", " ", "b">>}
Actions == {"draft", "publish"}
PostIds == 1..MaxId

Init ==
    /\ posts = <<>>
    /\ nextId = 1
    /\ now = 0
    /\ resp = Response("none", 0)
    /\ procs = [p \in Procs |-> Idle]

Next ==
    \/ Tick
    \/ \E title \in Titles, content \in Contents, author \in Authors,
          action \in Actions :
         nextId <= MaxId /\ CreatePost(title, content, author, NoSlug, action)
    \/ \E post_id \in PostIds, title \in EditTitles, content \in EditContents,
          author \in EditAuthors, slug \in EditSlugs :
         EditPost(post_id, title, content, author, slug)
    \/ \E post_id \in PostIds : DeletePost(post_id)
    \/ \E post_id \in PostIds : PublishDraft(post_id)

Spec == Init /\ [][Next]_vars

(***************************************************************************)
(* The slug specification: titles and slug overrides that collide and that *)
(* are not in normal form, with the pages that read posts by slug.  The     *)
(* clock stands still: no handler reads a timestamp to decide on a slug or *)
(* on what a page may show.                                                *)
(***************************************************************************)
SlugTitles == {<<"H", "i", " ", "A", "!">>, <<"h", "i", "-", "a">>, <<"B">>}
CreateSlugs == {NoSlug, <<" ", "-", "B", " ">>}
SlugEditSlugs == {NoSlug, <<"b">>, <<"A", " ", "b">>}
ViewSlugs == {<<"h", "i", "-", "a">>, <<"b">>, <<"A", " ", "b">>}
Searches == {<<>>, <<"_", "I">>}
Pages == 0..MaxPage

NextSlug ==
    \/ \E title \in SlugTitles, content \in Contents, author \in Authors,
          slug \in CreateSlugs, action \in Actions :
         nextId <= MaxId /\ CreatePost(title, content, author, slug, action)
    \/ \E post_id \in PostIds, title \in SlugTitles, content \in EditContents,
          author \in EditAuthors, slug \in SlugEditSlugs :
         EditPost(post_id, title, content, author, slug)
    \/ \E post_id \in PostIds : DeletePost(post_id)
    \/ \E post_id \in PostIds : PublishDraft(post_id)
    \/ \E slug \in ViewSlugs : ViewPost(slug)
    \/ \E page \in Pages, search \in Searches : Home(page, search)

SpecSlug == Init /\ [][NextSlug]_vars

(***************************************************************************)
(* The listing specification: enough published posts for a second page.    *)
(***************************************************************************)
\* the titles submitted, in the order they are submitted: one slug each
HomeTitles == << <<"a">>, <<"b">>, <<"h">>, <<"i">>, <<"1">>, <<"_">> >>
HomeSearches == {<<>>, <<"H">>}
HomeIds == 1..MaxHomeId

NextHome ==
    \/ Tick
    \/ \E content \in Contents, author \in Authors, action \in Actions :
         /\ nextId <= Min(MaxHomeId, Len(HomeTitles))
         /\ CreatePost(HomeTitles[nextId], content, author, NoSlug, action)
    \/ \E post_id \in HomeIds : PublishDraft(post_id)
    \/ \E page \in Pages, search \in HomeSearches : Home(page, search)

SpecHome == Init /\ [][NextHome]_vars

(***************************************************************************)
(* The concurrent specification: two workers serve POST /create at once,   *)
(* within one reading of the clock.                                        *)
(***************************************************************************)
ConcIds == 1..MaxConcId

NextConc ==
    \/ \E p \in Procs, title \in SlugTitles, content \in Contents,
          author \in Authors, action \in Actions :
         nextId <= MaxConcId /\ CreateBegin(p, title, content, author, NoSlug, action)
    \/ \E p \in Procs : CreateQuery(p)
    \/ \E p \in Procs : CreateCommit(p)
    \/ \E post_id \in ConcIds : DeletePost(post_id)

SpecConc == Init /\ [][NextConc]_vars

(***************************************************************************)
(* Properties.                                                             *)
(***************************************************************************)
Range(seq) == {seq[k] : k \in 1..Len(seq)}

\* C1: every stored post has published_at = NULL exactly when it has never
\* been published; a post is never unpublished (C10), so "never published" is
\* "is_published is false".  Stated as the claim states it; create_post sets
\* published_at on a draft too.
C1_PublishedAtNullIffNeverPublished ==
    \A i \in DOMAIN posts :
        (posts[i].published_at = NULL) <=> ~posts[i].is_published

\* C2: no two stored posts have the same slug, whatever create_post,
\* edit_post, publish_draft and delete_post requests were served.
C2_SlugUnique ==
    \A i, j \in DOMAIN posts : i # j => posts[i].slug # posts[j].slug

\* an edit of a published post asked for a slug another post has, and the
\* commit was refused
C2_Witness ==
    /\ resp.op = "edit_post" /\ resp.status = 500
    /\ Cardinality(DOMAIN posts) = 2
    /\ \E i \in DOMAIN posts : posts[i].is_published

\* C3: a create_post request whose final slug is the slug of a stored post,
\* draft or published, answers 400 and inserts and modifies no row.
C3_DuplicateSlugRejected ==
    [][\A title \in SlugTitles, content \in Contents, author \in Authors,
          slug \in CreateSlugs, action \in Actions :
          (/\ resp'.op = "create_post"
           /\ CreatePost(title, content, author, slug, action)
           /\ \E i \in DOMAIN posts : posts[i].slug = FinalSlug(slug, title))
          => (resp'.status = 400 /\ posts' = posts /\ nextId' = nextId)]_vars

\* a create was refused with 400 while a draft held the slug
C3_Witness ==
    /\ resp.op = "create_post" /\ resp.status = 400
    /\ Cardinality(DOMAIN posts) = 1
    /\ \A i \in DOMAIN posts : ~posts[i].is_published

\* C4: publish_draft on a post that is already published changes none of
\* is_published, published_at and updated_at, so after two publish requests
\* published_at is what the first one set.
C4_PublishIdempotent ==
    [][\A post_id \in PostIds :
          (/\ PublishDraft(post_id)
           /\ post_id \in DOMAIN posts
           /\ posts[post_id].is_published)
          => (/\ post_id \in DOMAIN posts'
              /\ posts'[post_id].is_published = posts[post_id].is_published
              /\ posts'[post_id].published_at = posts[post_id].published_at
              /\ posts'[post_id].updated_at = posts[post_id].updated_at)]_vars

\* the only post ever created was created published (no publish request
\* stamped it), the clock has moved since, and a publish request on it was the
\* last request served
C4_Witness ==
    /\ resp.op = "publish_draft" /\ resp.status = 303
    /\ nextId = 2 /\ DOMAIN posts = {1}
    /\ posts[1].is_published
    /\ posts[1].published_at < now
    /\ posts[1].updated_at = NULL

\* the step edit_post takes on stored post post_id when the commit succeeds
EditApplied(post_id, title, content, author, slug) ==
    /\ resp'.status = 303
    /\ DOMAIN posts' = DOMAIN posts
    /\ \A i \in DOMAIN posts \ {post_id} : posts'[i] = posts[i]
    /\ posts'[post_id].title = title
    /\ posts'[post_id].content = content
    /\ posts'[post_id].author = author
    /\ posts'[post_id].created_at = posts[post_id].created_at
    /\ posts'[post_id].is_published = posts[post_id].is_published
    /\ posts'[post_id].published_at = posts[post_id].published_at
    /\ IF posts[post_id].is_published
       THEN /\ posts'[post_id].slug = IF slug # NoSlug THEN slug ELSE slugify(title)
            /\ posts'[post_id].updated_at = now
       ELSE /\ posts'[post_id].slug = posts[post_id].slug
            /\ posts'[post_id].updated_at = posts[post_id].updated_at

\* the slug an edit asks for is the slug of another stored post
EditCollides(post_id, title, slug) ==
    /\ posts[post_id].is_published
    /\ \E i \in DOMAIN posts \ {post_id} :
         posts[i].slug = IF slug # NoSlug THEN slug ELSE slugify(title)

\* C9, as the claim states it: edit_post on an existing post sets title,
\* content and author and leaves id, created_at, is_published and
\* published_at alone; a draft keeps slug and updated_at, a published post
\* gets the slug override or else the slug of the new title, and updated_at
\* is stamped; edit_post on an id that is not stored answers 404 and changes
\* no post.
C9_EditFrame_AsClaimed ==
    [][\A post_id \in PostIds, title \in EditTitles, content \in EditContents,
          author \in EditAuthors, slug \in EditSlugs :
          (resp'.op = "edit_post" /\ EditPost(post_id, title, content, author, slug))
          => IF post_id \in DOMAIN posts
             THEN EditApplied(post_id, title, content, author, slug)
             ELSE resp'.status = 404 /\ posts' = posts]_vars

\* C9, amended: the same, except that when the post is published and the slug
\* asked for is the slug of another stored post the commit is refused, the
\* request ends in a server error and no post changes.
C9_EditFrame ==
    [][\A post_id \in PostIds, title \in EditTitles, content \in EditContents,
          author \in EditAuthors, slug \in EditSlugs :
          (resp'.op = "edit_post" /\ EditPost(post_id, title, content, author, slug))
          => IF post_id \notin DOMAIN posts
             THEN resp'.status = 404 /\ posts' = posts
             ELSE IF EditCollides(post_id, title, slug)
             THEN resp'.status = 500 /\ posts' = posts
             ELSE EditApplied(post_id, title, content, author, slug)]_vars

\* a draft was edited: it holds the submitted content and author, and no stamp
C9_Witness ==
    /\ resp.op = "edit_post" /\ resp.status = 303
    /\ \E i \in DOMAIN posts :
         /\ ~posts[i].is_published
         /\ posts[i].content \in EditContents
         /\ posts[i].author \in EditAuthors
         /\ posts[i].updated_at = NULL

\* C10: once a post has is_published = TRUE it keeps it in every later state
\* in which it is stored; only its deletion ends it.
C10_PublishOneWay ==
    [][\A i \in DOMAIN posts :
          posts[i].is_published =>
            (i \in DOMAIN posts' => posts'[i].is_published)]_vars

\* a published post was edited, after the clock moved, and is still published
C10_Witness ==
    /\ resp.op = "edit_post" /\ resp.status = 303
    /\ \E i \in DOMAIN posts :
         /\ posts[i].is_published
         /\ posts[i].content \in EditContents
         /\ posts[i].updated_at # NULL
         /\ posts[i].updated_at > posts[i].published_at

\* C6: the slug of every stored post is in the normal form slugify produces:
\* lower-case, word characters and hyphens only, no hyphen at either end, a
\* fixed point of slugify.  Stated as the claim states it; edit_post stores
\* the slug override as submitted.
C6_SlugNormalized ==
    \A i \in DOMAIN posts :
        LET s == posts[i].slug
        IN /\ slugify(s) = s
           /\ \A k \in 1..Len(s) : s[k] \in (WordChars \ UpperChars) \cup {"-"}
           /\ s # <<>> => s[1] # "-" /\ s[Len(s)] # "-"

\* C7: view_post answers with a post only when a stored post has the slug
\* asked for and is published, and answers 404 otherwise; the home listing
\* holds no draft.
C7_DraftsNotServed ==
    /\ [](resp.op = "home" =>
            \A i \in Range(resp.posts) : i \in DOMAIN posts /\ posts[i].is_published)
    /\ [][\A slug \in ViewSlugs :
            (resp'.op = "view_post" /\ ViewPost(slug))
            => IF \E i \in DOMAIN posts : posts[i].slug = slug /\ posts[i].is_published
               THEN /\ resp'.status = 200
                    /\ Len(resp'.posts) = 1
                    /\ resp'.posts[1] \in DOMAIN posts
                    /\ posts[resp'.posts[1]].slug = slug
                    /\ posts[resp'.posts[1]].is_published
               ELSE resp'.status = 404 /\ resp'.posts = <<>>]_vars

\* view_post served a post that was created as a draft and then published
\* (never edited: a publish request stamped it), while another post is still a
\* draft
C7_Witness ==
    /\ resp.op = "view_post" /\ resp.status = 200
    /\ LET i == resp.posts[1]
       IN /\ posts[i].content \in Contents
          /\ posts[i].updated_at # NULL
    /\ \E j \in DOMAIN posts : ~posts[j].is_published

\* C8: when two workers serve create_post for the same final slug, query and
\* commit interleaved in any way, at most one row ever holds the slug: the
\* commit that would store a second one is refused by the unique index, the
\* request ends in an error, and it leaves no row.
C8_ConcurrentCreateUnique ==
    /\ [](\A i, j \in DOMAIN posts : i # j => posts[i].slug # posts[j].slug)
    /\ [][\A p \in Procs :
            (/\ CreateCommit(p)
             /\ \E i \in DOMAIN posts : posts[i].slug = procs[p].final_slug)
            => (procs'[p].status = 500 /\ posts' = posts)]_vars

\* both workers passed the query for the same slug; one commit stored the row
\* and the other was refused
C8_Witness ==
    /\ procs[1].final_slug = procs[2].final_slug
    /\ {procs[1].status, procs[2].status} = {303, 500}
    /\ Cardinality({i \in DOMAIN posts : posts[i].slug = procs[1].final_slug}) = 1

\* the published posts a search matches, from the columns
PublishedMatching(search) ==
    {i \in DOMAIN posts :
        /\ posts[i].is_published
        /\ \/ search = <<>>
           \/ ILike(posts[i].title, search)
           \/ ILike(posts[i].content, search)
           \/ ILike(posts[i].author, search)}

\* page N of the listing is the items [(N-1)*4, N*4) of the published posts the
\* search matches, ordered by published_at descending (the rows in before stand
\* ahead of the page, the others after it), and the page count is
\* max(ceil(count/4), 1)
PageIsSlice(r, page, search) ==
    LET ids == PublishedMatching(search)
        n == Cardinality(ids)
        skipped == Min(n, (page - 1) * 4)
        shown == Range(r.posts)
        at(i) == posts[i].published_at
    IN /\ r.total_pages = (IF n = 0 THEN 1
                           ELSE IF n % 4 = 0 THEN n \div 4 ELSE n \div 4 + 1)
       /\ Len(r.posts) = Min(n, page * 4) - skipped
       /\ Cardinality(shown) = Len(r.posts)
       /\ shown \subseteq ids
       /\ \A k \in 1..Len(r.posts) - 1 : at(r.posts[k]) >= at(r.posts[k + 1])
       /\ \E before \in SUBSET (ids \ shown) :
            /\ Cardinality(before) = skipped
            /\ \A i \in before, j \in ids \ before : at(i) >= at(j)
            /\ \A i \in shown, j \in ids \ (before \cup shown) : at(i) >= at(j)

\* C5: the page count is max(ceil(count/4), 1), page N is the items
\* [(N-1)*4, N*4) of the ordered list, and the pages are disjoint and hold
\* every matching published post once.  Stated as the claim states it; two
\* posts with one published_at may change places between two requests.
C5_PagesPartition ==
    \A search \in HomeSearches :
        /\ \A page \in 1..MaxPage :
             \A r \in HomeResults(posts, page, search) : PageIsSlice(r, page, search)
        /\ \A p1, p2 \in 1..MaxPage :
             p1 # p2 =>
               \A r1 \in HomeResults(posts, p1, search),
                  r2 \in HomeResults(posts, p2, search) :
                    Range(r1.posts) \cap Range(r2.posts) = {}

====
